---- MODULE Spec2Model ----
(***************************************************************************)
(* Stress Detection API (src/app.py): the /predict handler, the lazy      *)
(* load of the preprocessing artifacts and the Firebase data source.      *)
(*                                                                         *)
(* Numbers.  A raw feature is an integer; a scaled feature is kept in     *)
(* tenths (scaled 1.5 is 15), so the thresholds -1.0, 1.5 and 1.0 are     *)
(* -10, 15 and 10.  Confidence scores are exact fractions [n, d].         *)
(* JSON values are tagged records: a number, NaN, or a non-numeric        *)
(* string.                                                                 *)
(***************************************************************************)
EXTENDS Integers, Sequences, FiniteSets, TLC

\* ------------------------------------------------------------------ bounds
NumThreads == 2

Threads == 1..NumThreads

\* ------------------------------------------------------------- JSON values
Num(n) == [k |-> "num", v |-> n]
NaN == [k |-> "nan", v |-> 0]
Str == [k |-> "str", v |-> 0]

\* A payload is what request.get_json() or the 'latest' node holds: a JSON
\* object (kind "dict", f its fields), null/0/false (kind "null"), a truthy
\* list or string that holds none of the feature names (kind "list"), or a
\* truthy number or boolean (kind "scalar").
NoFields == [x \in {} |-> NaN]
Dict(f) == [kind |-> "dict", f |-> f]
Null == [kind |-> "null", f |-> NoFields]
List == [kind |-> "list", f |-> NoFields]
Scalar == [kind |-> "scalar", f |-> NoFields]

\* Python truthiness of a payload: None, 0, false and {} are falsy.
Falsy(p) == p.kind = "null" \/ (p.kind = "dict" /\ DOMAIN p.f = {})

\* Every payload taken as a container.
SupportsInAlways(p) == TRUE

\* `feature in data`: key membership for a dict, element or substring
\* membership for a list or string; a number or boolean raises TypeError.
SupportsIn(p) == p.kind \in {"dict", "list"}
Has(p, feature) == p.kind = "dict" /\ feature \in DOMAIN p.f

\* ------------------------------------------------------- program constants
required_features == <<"psd_theta", "psd_beta", "hrv">>

status_mapping == (0 :> "anxious") @@ (1 :> "normal") @@ (2 :> "ptsd") @@ (3 :> "stressed")

HRV_THRESHOLD == -10
BETA_THRESHOLD == 15
THETA_THRESHOLD == 10

PTSD == 2
STRESSED == 3
ANXIOUS == 1
NORMAL == 0

PredictedConfidence == [n |-> 4, d |-> 10]
RemainingConfidence == [n |-> 2, d |-> 10]

\* ------------------------------------------------------ exact fractions
RatDiv(r, m) == [n |-> r.n, d |-> r.d * m]
RatAdd(a, b) == [n |-> a.n * b.d + b.n * a.d, d |-> a.d * b.d]
RatSub(a, b) == [n |-> a.n * b.d - b.n * a.d, d |-> a.d * b.d]
RatEq(a, b) == a.n * b.d = b.n * a.d
RatOne == [n |-> 1, d |-> 1]
RatZero == [n |-> 0, d |-> 1]

\* ------------------------------------------------------------- artifacts
\* scaler.pkl holds a fitted StandardScaler: mean_ and scale_, 5 of each.
\* label_encoder (1).pkl holds a fitted LabelEncoder: classes_.
None == [kind |-> "none"]

ScalerArtifacts ==
    { [kind |-> "scaler", mean |-> <<0, 0, 0, 0, 0>>, scale |-> <<10, 10, 10, 10, 10>>],
      [kind |-> "scaler", mean |-> <<5, 4, 5, 2, -5>>, scale |-> <<5, 2, 5, 1, 5>>] }

\* `raises` marks an encoder whose inverse_transform raises for every code
\* (the case the except branch of line 163 is written for).
EncoderArtifacts ==
    { [kind |-> "encoder", classes |-> <<"anxious", "normal", "ptsd", "stressed">>, raises |-> FALSE],
      [kind |-> "encoder", classes |-> <<"anxious", "normal", "ptsd", "relaxed">>, raises |-> FALSE],
      [kind |-> "encoder", classes |-> <<"calm", "normal", "ptsd", "tense">>, raises |-> TRUE],
      [kind |-> "encoder", classes |-> <<"negative", "positive">>, raises |-> FALSE] }

LE_FILE == "label_encoder (1).pkl"
SC_FILE == "scaler.pkl"
ModelFiles == {LE_FILE, SC_FILE}

\* The scaler read and assigned before the label encoder.
LoadOrderScalerFirst == <<SC_FILE, LE_FILE>>

\* Lines 74-75: the order in which load_models reads and assigns the two.
LoadOrder == <<LE_FILE, SC_FILE>>

\* ---------------------------------------------------------- the pipeline
\* StandardScaler.transform: (x - mean) / scale per column, NaN passed
\* through; a value that is not a number raises ValueError.  The result is
\* in tenths; every scale of ScalerArtifacts divides 10, so it is exact.
Transformable(input_data) == \A i \in 1..5 : input_data[i].k \in {"num", "nan"}

ScaleOne(x, mean, scale) ==
    IF x.k = "nan" THEN NaN ELSE Num((10 * (x.v - mean)) \div scale)

transform(sc, input_data) ==
    [i \in 1..5 |-> ScaleOne(input_data[i], sc.mean[i], sc.scale[i])]

\* Float comparisons: every comparison with NaN is false.
Lt(x, c) == x.k = "num" /\ x.v < c
Gt(x, c) == x.k = "num" /\ x.v > c

\* The cascade with the beta rule tried before the hrv rule.
ClassifyBetaFirst(scaled_values) ==
    IF Gt(scaled_values[3], BETA_THRESHOLD) THEN STRESSED
    ELSE IF Lt(scaled_values[5], HRV_THRESHOLD) THEN PTSD
    ELSE IF Gt(scaled_values[1], THETA_THRESHOLD) THEN ANXIOUS
    ELSE NORMAL

\* scaled_values[0], [2], [4] of the source are positions 1, 3, 5 here.
Classify(scaled_values) ==
    IF Lt(scaled_values[5], HRV_THRESHOLD) THEN PTSD
    ELSE IF Gt(scaled_values[3], BETA_THRESHOLD) THEN STRESSED
    ELSE IF Gt(scaled_values[1], THETA_THRESHOLD) THEN ANXIOUS
    ELSE NORMAL

\* LabelEncoder.inverse_transform([prediction]) raises ValueError for a
\* code outside range(len(classes_)).
InverseRaises(le, prediction) == le.raises \/ prediction >= Len(le.classes)

\* Lines 161-169: the name the label encoder gives, with the fallback of
\* the except branch.
EncoderStatus(le, prediction) ==
    IF ~InverseRaises(le, prediction) THEN le.classes[prediction + 1]
    ELSE IF prediction < Len(le.classes) THEN le.classes[prediction + 1]
    ELSE "unknown"

\* The name left as the label encoder gave it (lines 182-185 dropped).
PredictedStatusFromEncoder(le, prediction) == EncoderStatus(le, prediction)

\* Lines 161-185: predicted_status is first set from the label encoder and
\* then overwritten from the fixed table.
PredictedStatus(le, prediction) ==
    LET from_encoder == EncoderStatus(le, prediction)
    IN  IF prediction \in DOMAIN status_mapping THEN status_mapping[prediction]
        ELSE "unknown"

StatusNames == {status_mapping[i] : i \in DOMAIN status_mapping}

ConfidenceOf(i, prediction) ==
    IF i = prediction THEN PredictedConfidence
    ELSE RatDiv(RemainingConfidence, Cardinality(DOMAIN status_mapping) - 1)

\* Lines 188-193: one entry per name of the table.
ConfidenceScores(prediction) ==
    [name \in StatusNames |->
        ConfidenceOf(CHOOSE i \in DOMAIN status_mapping : status_mapping[i] = name,
                     prediction)]

\* ------------------------------------------------------------ data source
\* What the Firebase root document is when it is fetched: the request may
\* fail (net = "fail"); the root may be null, {} ("empty"), an object
\* without 'latest' ("nolatest"), a bare number ("scalar"), or an object
\* whose 'latest' node is `latest`.
Store(net, root, latest) == [net |-> net, root |-> root, latest |-> latest]
NotFetched == Store("none", "null", Null)

\* The whole document returned when it has no 'latest' node.
fetch_whole_document(store) ==
    IF store.net # "ok" THEN Null
    ELSE IF store.root \in {"null", "empty"} THEN Null
    ELSE IF store.root = "scalar" THEN Null
    ELSE IF store.root = "latest" THEN store.latest
    ELSE Dict(("history" :> Str))

\* Lines 51-64: every exception and every missing 'latest' gives None.
fetch_latest_data(store) ==
    IF store.net # "ok" THEN Null
    ELSE IF store.root \in {"null", "empty"} THEN Null
    ELSE IF store.root = "scalar" THEN Null
    ELSE IF store.root = "latest" THEN store.latest
    ELSE Null

\* ------------------------------------------------------------- responses
NoConfidence == [x \in {} |-> RatZero]

ErrorResponse(kind, status, error, missing) ==
    [kind |-> kind, status |-> status, error |-> error, missing |-> missing,
     prediction |-> "", confidence_scores |-> NoConfidence,
     scaled_features |-> <<>>, data_source |-> ""]

OkResponse(predicted_status, confidence_scores, scaled_values, data_source) ==
    [kind |-> "ok", status |-> 200, error |-> "", missing |-> <<>>,
     prediction |-> predicted_status, confidence_scores |-> confidence_scores,
     scaled_features |-> scaled_values, data_source |-> data_source]

NoResponse == ErrorResponse("none", 0, "", <<>>)

\* What one call of predict did: the request, the store as fetched, the
\* record that reached validation, the response, and how far it got.
\* load: "skip" (scaler was set at line 107), "ok" (this call loaded),
\* "fail" (this call's load_models failed).
Outcome(req, store, load, data, resp) ==
    [req |-> req, store |-> store, load |-> load, data |-> data, resp |-> resp,
     built |-> FALSE, input_data |-> <<>>, transformed |-> FALSE, code |-> -1,
     swallowed |-> FALSE, encoder_status |-> ""]

Request(method, is_json, body) == [method |-> method, is_json |-> is_json, body |-> body]
NoRequest == Request("", FALSE, Null)

FromStore(req) == req.method = "GET" \/ ~req.is_json

\* The psd_alpha and eda columns taken from the payload when it has them.
InputDataFromPayload(data) ==
    <<data.f["psd_theta"],
      IF Has(data, "psd_alpha") THEN data.f["psd_alpha"] ELSE Num(0),
      data.f["psd_beta"],
      IF Has(data, "eda") THEN data.f["eda"] ELSE Num(0),
      data.f["hrv"]>>

\* Lines 134-136.
InputData(data) ==
    <<data.f["psd_theta"], Num(0), data.f["psd_beta"], Num(0), data.f["hrv"]>>

\* Only the first absent feature is reported.
FirstMissingFeature(data) ==
    LET all == SelectSeq(required_features, LAMBDA feature : ~Has(data, feature))
    IN  IF all = <<>> THEN <<>> ELSE <<Head(all)>>

\* Lines 127-128.
MissingFeatures(data) == SelectSeq(required_features, LAMBDA feature : ~Has(data, feature))

GenericError == ErrorResponse("generic", 500, "Prediction error", <<>>)

\* Lines 132-212, once the record is known to hold the three features.
Compute(o, sc, le, data_source) ==
    LET input_data == InputData(o.data)
        built == [o EXCEPT !.built = TRUE, !.input_data = input_data]
    IN  IF sc = None \/ ~Transformable(input_data)
        THEN [built EXCEPT !.resp = GenericError]
        ELSE
        LET scaled_values == transform(sc, input_data)
            scaled == [built EXCEPT !.transformed = TRUE]
        IN  IF le = None
            THEN [scaled EXCEPT !.resp = GenericError]
            ELSE
            LET prediction == Classify(scaled_values)
            IN  [scaled EXCEPT
                    !.code = prediction,
                    !.swallowed = InverseRaises(le, prediction),
                    !.encoder_status = EncoderStatus(le, prediction),
                    !.resp = OkResponse(PredictedStatus(le, prediction),
                                        ConfidenceScores(prediction),
                                        scaled_values, data_source)]

\* Lines 112-215 of predict, after the load check.
PredictBody(req, store, load, sc, le) ==
    LET firebase_data == fetch_latest_data(store)
        data == IF FromStore(req) THEN firebase_data ELSE req.body
        data_source == IF FromStore(req) THEN "firebase" ELSE "request_body"
        o == Outcome(req, store, load, data, NoResponse)
    IN  IF FromStore(req) /\ Falsy(firebase_data)
        THEN [o EXCEPT !.resp = ErrorResponse("data_source", 500,
                                  "Failed to fetch data from Firebase", <<>>)]
        ELSE IF ~FromStore(req) /\ Falsy(data)
        THEN [o EXCEPT !.resp = ErrorResponse("validation", 400, "No data provided", <<>>)]
        ELSE IF ~SupportsIn(data)
        THEN [o EXCEPT !.resp = GenericError]
        ELSE IF MissingFeatures(data) # <<>>
        THEN [o EXCEPT !.resp = ErrorResponse("validation", 400, "Missing features",
                                              MissingFeatures(data))]
        ELSE Compute(o, sc, le, data_source)

\* Lines 107-110 when load_models fails.
LoadFailure(message) ==
    Outcome(NoRequest, NotFetched, "fail", Null,
            ErrorResponse("model_unavailable", 500, message, <<>>))

\* ---------------------------------------------------------------- inputs
Fields(theta, beta, hrv) == ("psd_theta" :> theta) @@ ("psd_beta" :> beta) @@ ("hrv" :> hrv)

\* Raw values that put each scaled feature below, on and above its
\* threshold under the artifacts above, and NaN.
ThetaValues == {Num(10), Num(11), NaN}
BetaValues == {Num(15), Num(16), NaN}
HrvValues == {Num(-11), Num(-10), NaN}

FullRecords ==
    {Fields(th, be, hr) : th \in ThetaValues, be \in BetaValues, hr \in HrvValues}

\* Fields the handler does not name (the test sends psd_alpha and eda).
ExtraFields ==
    { ("psd_alpha" :> Num(6)),
      ("psd_alpha" :> Num(7)) @@ ("eda" :> Num(80)),
      ("eda" :> Str) }

ExtraBases ==
    {Fields(th, Num(15), hr) : th \in {Num(10), Num(11)}, hr \in {Num(-11), Num(-10)}}

Restrict(f, S) == [x \in S |-> f[x]]

\* Records that lack some of the three features, {} among them.
PartialRecords ==
    {Restrict(Fields(Num(11), Num(16), Num(-11)), S) :
        S \in (SUBSET {"psd_theta", "psd_beta", "hrv"}) \ {{"psd_theta", "psd_beta", "hrv"}}}
    \cup {("eda" :> Num(80)), ("psd_theta" :> Num(0)) @@ ("psd_alpha" :> Num(6))}

\* Records with a feature that is not a number.
TextRecords == {Fields(Str, Num(0), Num(0)), Fields(Num(0), Num(16), Str)}

Payloads ==
    {Dict(f) : f \in FullRecords \cup PartialRecords \cup TextRecords}
    \cup {Dict(f @@ e) : f \in ExtraBases, e \in ExtraFields}
    \cup {Null, List, Scalar}

\* What the 'latest' node holds in the runs below.
Snapshots ==
    { Dict(Fields(Num(11), Num(15), Num(-10))), Dict(Fields(Num(10), Num(16), NaN)),
      Dict(Fields(Num(11), Num(15), Num(-10)) @@ ("eda" :> Num(80))),
      Dict(("psd_theta" :> Num(11)) @@ ("psd_beta" :> Num(16))),
      Dict(Fields(Num(10), Num(16), Str)), Dict(NoFields), Scalar, List }

Stores ==
    { Store("fail", "null", Null), Store("ok", "null", Null), Store("ok", "empty", Null),
      Store("ok", "nolatest", Null), Store("ok", "scalar", Null) }
    \cup {Store("ok", "latest", p) : p \in Snapshots}

Requests ==
    { Request("GET", FALSE, Null), Request("POST", FALSE, Null),
      Request("GET", TRUE, Dict(Fields(Num(11), Num(16), Num(-11)))) }
    \cup {Request("POST", TRUE, p) : p \in Payloads}

\* The inputs of the runs with interleaved calls.
FewStores ==
    { Store("fail", "null", Null), Store("ok", "nolatest", Null),
      Store("ok", "latest", Dict(Fields(Num(11), Num(15), Num(-10)))) }

FewRequests ==
    { Request("GET", FALSE, Null),
      Request("POST", TRUE, Dict(Fields(Num(10), Num(16), Num(-11)))),
      Request("POST", TRUE, Dict(("psd_theta" :> Num(11)) @@ ("psd_beta" :> Num(16)))),
      Request("POST", TRUE, Scalar) }

\* ----------------------------------------------------------------- state
VARIABLES
    files,          \* the model files present in the working directory
    le_artifact,    \* what label_encoder (1).pkl holds
    sc_artifact,    \* what scaler.pkl holds
    label_encoder,  \* the global of line 18
    scaler,         \* the global of line 19
    started,        \* the module has been started and serves requests
    pc,             \* where each request thread is in predict
    path,           \* per thread: how the call got past the load check
    last            \* the outcome of the call that ended last

vars == <<files, le_artifact, sc_artifact, label_encoder, scaler, started, pc, path, last>>

NoOutcome == Outcome(NoRequest, NotFetched, "none", Null, NoResponse)

\* The module as imported: both globals None.  The artifacts on disk are
\* whatever the notebook produced; they do not change while the API runs.
Init ==
    /\ files \in SUBSET ModelFiles
    /\ le_artifact \in EncoderArtifacts
    /\ sc_artifact \in ScalerArtifacts
    /\ label_encoder = None
    /\ scaler = None
    /\ started = FALSE
    /\ pc = [t \in Threads |-> "idle"]
    /\ path = [t \in Threads |-> "none"]
    /\ last = NoOutcome

ArtifactOf(file) == IF file = LE_FILE THEN le_artifact ELSE sc_artifact

\* The globals after joblib.load of `file` is assigned.
Assign(file, le, sc) ==
    IF file = LE_FILE THEN <<ArtifactOf(file), sc>> ELSE <<le, ArtifactOf(file)>>

\* Lines 220-240: run as a script, load_models runs once before app.run.
Main ==
    /\ ~started
    /\ started' = TRUE
    /\ IF ModelFiles \subseteq files
       THEN LET first == Assign(LoadOrder[1], label_encoder, scaler)
                second == Assign(LoadOrder[2], first[1], first[2])
            IN  label_encoder' = second[1] /\ scaler' = second[2]
       ELSE UNCHANGED <<label_encoder, scaler>>
    /\ UNCHANGED <<files, le_artifact, sc_artifact, pc, path, last>>

\* The module imported by a WSGI server: the block of line 220 does not run.
ImportApp ==
    /\ ~started
    /\ started' = TRUE
    /\ UNCHANGED <<files, le_artifact, sc_artifact, label_encoder, scaler, pc, path, last>>

\* The environment: a model file is put in place or removed.
Deploy(file) ==
    /\ file \notin files
    /\ files' = files \cup {file}
    /\ UNCHANGED <<le_artifact, sc_artifact, label_encoder, scaler, started, pc, path, last>>

Remove(file) ==
    /\ file \in files
    /\ files' = files \ {file}
    /\ UNCHANGED <<le_artifact, sc_artifact, label_encoder, scaler, started, pc, path, last>>

\* A call ends: its outcome is the last one, the thread is free again.
Finish(t, outcome) ==
    /\ last' = outcome
    /\ pc' = [pc EXCEPT ![t] = "idle"]
    /\ path' = [path EXCEPT ![t] = "none"]

\* The load check made on the label encoder instead of the scaler.
NeedsLoadByEncoder == label_encoder = None

\* Line 107: the test that sends a call to load_models.
NeedsLoad == scaler = None

\* Line 107: a request enters predict and tests the scaler global.
CheckScaler(t) ==
    /\ started
    /\ pc[t] = "idle"
    /\ IF NeedsLoad
       THEN pc' = [pc EXCEPT ![t] = "exists"] /\ UNCHANGED path
       ELSE pc' = [pc EXCEPT ![t] = "serve"] /\ path' = [path EXCEPT ![t] = "skip"]
    /\ UNCHANGED <<files, le_artifact, sc_artifact, label_encoder, scaler, started, last>>

\* Lines 71-72: load_models looks for the two files.
ModelsExist(t) ==
    /\ pc[t] = "exists"
    /\ IF ModelFiles \subseteq files
       THEN pc' = [pc EXCEPT ![t] = "load1"] /\ UNCHANGED <<path, last>>
       ELSE Finish(t, LoadFailure("Model files not found"))
    /\ UNCHANGED <<files, le_artifact, sc_artifact, label_encoder, scaler, started>>

\* Line 74 (i = 1) and line 75 (i = 2): joblib.load and the assignment to
\* the global; a file removed since line 71 makes joblib.load raise.
LoadStep(t, i) ==
    /\ pc[t] = (IF i = 1 THEN "load1" ELSE "load2")
    /\ IF LoadOrder[i] \in files
       THEN /\ label_encoder' = Assign(LoadOrder[i], label_encoder, scaler)[1]
            /\ scaler' = Assign(LoadOrder[i], label_encoder, scaler)[2]
            /\ IF i = 1
               THEN pc' = [pc EXCEPT ![t] = "load2"] /\ UNCHANGED path
               ELSE pc' = [pc EXCEPT ![t] = "serve"] /\ path' = [path EXCEPT ![t] = "ok"]
            /\ UNCHANGED last
       ELSE /\ Finish(t, LoadFailure("Error loading models"))
            /\ UNCHANGED <<label_encoder, scaler>>
    /\ UNCHANGED <<files, le_artifact, sc_artifact, started>>

\* Lines 112-215: the rest of predict on one request.
Serve(t, requests, stores) ==
    /\ pc[t] = "serve"
    /\ \E req \in requests :
         \E store \in (IF FromStore(req) THEN stores ELSE {NotFetched}) :
            Finish(t, PredictBody(req, store, path[t], scaler, label_encoder))
    /\ UNCHANGED <<files, le_artifact, sc_artifact, label_encoder, scaler, started>>

Environment == \E file \in ModelFiles : Deploy(file) \/ Remove(file)

\* Threaded server: calls of predict interleave.
Next ==
    \/ Main
    \/ ImportApp
    \/ Environment
    \/ \E t \in Threads :
         \/ CheckScaler(t)
         \/ ModelsExist(t)
         \/ LoadStep(t, 1)
         \/ LoadStep(t, 2)
         \/ Serve(t, FewRequests, FewStores)

Spec == Init /\ [][Next]_vars

\* One call at a time, over the full set of inputs.
NextSeq ==
    \/ Main
    \/ ImportApp
    \/ Environment
    \/ CheckScaler(1)
    \/ ModelsExist(1)
    \/ LoadStep(1, 1)
    \/ LoadStep(1, 2)
    \/ Serve(1, Requests, Stores)

SpecSeq == Init /\ [][NextSeq]_vars

\* ================================================================ claims
Ok(o) == o.resp.kind = "ok"

RECURSIVE RatSum(_, _)
RatSum(c, names) ==
    IF names = {} THEN RatZero
    ELSE LET name == CHOOSE x \in names : TRUE
         IN  RatAdd(c[name], RatSum(c, names \ {name}))

FixedTable == (0 :> "anxious") @@ (1 :> "normal") @@ (2 :> "ptsd") @@ (3 :> "stressed")

\* C1: on every successful call the confidence_scores map has exactly the
\* four entries anxious, normal, ptsd, stressed; the selected label holds
\* S, each of the other three holds (1 - S) / 3, and the four sum to 1.
C1_ConfidenceSumsToOne ==
    Ok(last) =>
        LET c == last.resp.confidence_scores
            selected == FixedTable[last.code]
        IN  /\ DOMAIN c = {"anxious", "normal", "ptsd", "stressed"}
            /\ \A name \in DOMAIN c \ {selected} :
                    RatEq(c[name], RatDiv(RatSub(RatOne, c[selected]), 3))
            /\ RatEq(RatSum(c, DOMAIN c), RatOne)

\* C2: the cascade is first-match-wins in the order hrv, beta, theta: a
\* scaled vector with scaled[4] < -1.0 gets code 2 whatever scaled[2] and
\* scaled[0] are (never 3 when the beta rule holds too), and every scaled
\* vector, NaN included, gets one code in 0..3.
C2_CascadeOrder ==
    last.transformed /\ last.resp.kind # "generic" =>
        LET s == last.resp.scaled_features
        IN  /\ last.code \in 0..3
            /\ (s[5].k = "num" /\ s[5].v < -10) => last.code = 2
            /\ (s[5].k = "num" /\ s[5].v < -10 /\ s[3].k = "num" /\ s[3].v > 15)
                   => last.code # 3

C2_Witness ==
    /\ Ok(last)
    /\ last.resp.scaled_features[5].k = "num" /\ last.resp.scaled_features[5].v < -10
    /\ last.resp.scaled_features[3].k = "num" /\ last.resp.scaled_features[3].v > 15
    /\ last.resp.scaled_features[1].k = "num" /\ last.resp.scaled_features[1].v > 10
    /\ last.code = 2

Trips(x, rule) ==
    /\ x.k = "num"
    /\ CASE rule = "hrv" -> x.v < -10
         [] rule = "beta" -> x.v > 15
         [] rule = "theta" -> x.v > 10

\* C3: the name returned as 'prediction' matches the branch that fired:
\* no threshold trips -> code 0 and 'normal'; only the theta rule trips
\* -> code 1 and 'anxious'.
C3_LabelMatchesBranch ==
    Ok(last) =>
        LET s == last.resp.scaled_features
            quiet == ~Trips(s[5], "hrv") /\ ~Trips(s[3], "beta")
        IN  /\ (quiet /\ ~Trips(s[1], "theta"))
                   => (last.code = 0 /\ last.resp.prediction = "normal")
            /\ (quiet /\ Trips(s[1], "theta"))
                   => (last.code = 1 /\ last.resp.prediction = "anxious")

\* C4: the name returned for a code is the one of the fixed table
\* 0 anxious, 1 normal, 2 ptsd, 3 stressed, whatever the label encoder
\* gives for that code and whether or not its lookup raises.
C4_FixedTableDecides ==
    Ok(last) =>
        /\ last.resp.prediction = FixedTable[last.code]
        /\ (last.code = 3 => last.resp.prediction = "stressed")

C4_Witness ==
    /\ Ok(last)
    /\ last.code = 3
    /\ ~last.swallowed
    /\ last.encoder_status = "relaxed"
    /\ last.resp.prediction = "stressed"

\* The call whose outcome `o` is read its request (a call that fails in
\* load_models never does).
Examined(o) == o.req # NoRequest

\* The input record of the call: the JSON body, or the 'latest' node.
HasRecord(o) ==
    /\ Examined(o)
    /\ IF FromStore(o.req)
       THEN o.store.net = "ok" /\ o.store.root = "latest" /\ o.store.latest.kind = "dict"
       ELSE o.req.body.kind = "dict"

InputRecord(o) == IF FromStore(o.req) THEN o.store.latest.f ELSE o.req.body.f

Absent(record) ==
    SelectSeq(<<"psd_theta", "psd_beta", "hrv">>, LAMBDA name : name \notin DOMAIN record)

NothingComputed(o) ==
    /\ ~o.built /\ o.input_data = <<>> /\ ~o.transformed /\ o.code = -1
    /\ o.resp.prediction = "" /\ o.resp.confidence_scores = NoConfidence
    /\ o.resp.scaled_features = <<>>

NamesMissing(o) ==
    /\ o.resp.kind = "validation" /\ o.resp.status = 400
    /\ o.resp.error = "Missing features"
    /\ o.resp.missing = Absent(InputRecord(o))

\* C5 as stated: an input record (body or snapshot) that lacks any of the
\* three features ends in HTTP 400 naming the missing features, with no
\* partial computation.
C5_MissingFeatureIs400 ==
    (HasRecord(last) /\ Absent(InputRecord(last)) # <<>>) =>
        (NamesMissing(last) /\ NothingComputed(last))

\* C5 amended: for a call past the load check, a non-empty input record
\* that lacks any of the three ends in HTTP 400 'Missing features' naming exactly the absent ones; the
\* empty record ends in HTTP 400 'No data provided' (body) or in the
\* data-source error (snapshot); in every case nothing is computed.
C5_MissingFeatureAmended ==
    (HasRecord(last) /\ Absent(InputRecord(last)) # <<>>) =>
        /\ NothingComputed(last)
        /\ IF DOMAIN InputRecord(last) # {} THEN NamesMissing(last)
           ELSE IF FromStore(last.req)
           THEN last.resp.kind = "data_source" /\ last.resp.status = 500
           ELSE /\ last.resp.kind = "validation" /\ last.resp.status = 400
                /\ last.resp.error = "No data provided" /\ last.resp.missing = <<>>

C5_Witness ==
    /\ HasRecord(last)
    /\ FromStore(last.req)
    /\ Absent(InputRecord(last)) = <<"hrv">>
    /\ NamesMissing(last)

\* C7: whatever makes the store give no data (network failure, null or
\* empty document, no 'latest' key), predict ends with the data-source
\* error, without a record and without classifying.
C7_NoDataIsUniform ==
    (Examined(last) /\ FromStore(last.req)
        /\ (last.store.net = "fail" \/ last.store.root \in {"null", "empty", "nolatest", "scalar"}))
    =>  /\ last.resp.kind = "data_source" /\ last.resp.status = 500
        /\ last.data = Null
        /\ NothingComputed(last)

C7_Witness ==
    /\ Examined(last) /\ last.req.method = "GET"
    /\ last.store.net = "ok" /\ last.store.root = "nolatest"
    /\ last.resp.kind = "data_source"

\* A feature of the record that is neither a number nor NaN.
HasText(record) == \E name \in {"psd_theta", "psd_beta", "hrv"} : record[name].k = "str"

\* C8 as stated: every failure is one of validation, model unavailable,
\* unknown label, data source; none is a generic catch-all and no error is
\* swallowed and replaced by a normal result.
C8_FourErrorKinds ==
    /\ last.resp.kind \in {"none", "ok", "validation", "model_unavailable",
                            "unknown_label", "data_source"}
    /\ ~(last.swallowed /\ Ok(last))

\* C8 amended: every failure is a validation error (400), model
\* unavailable (500), data-source error (500) or the generic 'Prediction
\* error' (500); the generic one is what a payload that is no container and
\* a feature that is not a number give; no unknown-label error and no
\* 'unknown' name is ever produced; an exception of the label encoder
\* lookup is swallowed and the call still ends normally.
C8_FiveErrorKinds ==
    /\ last.resp.kind \in {"none", "ok", "validation", "model_unavailable",
                            "data_source", "generic"}
    /\ last.resp.prediction # "unknown"
    /\ (last.resp.kind = "generic") = 
          (Examined(last) /\ last.data # Null
             /\ (last.data.kind = "scalar"
                   \/ (last.data.kind = "dict" /\ Absent(last.data.f) = <<>>
                          /\ HasText(last.data.f))))
    /\ (last.resp.kind = "generic" => last.resp.status = 500 /\ last.resp.prediction = "")
    /\ (last.swallowed => Ok(last))

C8_Witness ==
    /\ last.resp.kind = "generic"
    /\ last.data.kind = "scalar"
    /\ ~FromStore(last.req)

SameFeatures(a, b) ==
    \A name \in {"psd_theta", "psd_beta", "hrv"} : a.data.f[name] = b.data.f[name]

\* C9: positions 1 and 3 of the normalization vector are 0.0 and positions
\* 0, 2, 4 are the three inputs; two calls that agree on the three features
\* end the same way, with the same prediction, confidence_scores and
\* scaled_features, whatever else their payloads hold.
C9_OnlyThreeFeatures ==
    /\ [](last.built =>
            last.input_data = <<last.data.f["psd_theta"], Num(0), last.data.f["psd_beta"],
                                Num(0), last.data.f["hrv"]>>)
    /\ [][(last.built /\ last'.built /\ SameFeatures(last, last')) =>
            /\ last'.resp.kind = last.resp.kind
            /\ last'.resp.prediction = last.resp.prediction
            /\ last'.resp.confidence_scores = last.resp.confidence_scores
            /\ last'.resp.scaled_features = last.resp.scaled_features]_vars

C9_Witness ==
    /\ Ok(last)
    /\ "psd_alpha" \in DOMAIN last.data.f /\ "eda" \in DOMAIN last.data.f
    /\ last.input_data[2] = Num(0) /\ last.input_data[4] = Num(0)

\* Thread t's call of predict ends in this step.
Ends(t) == pc[t] # "idle" /\ pc'[t] = "idle"

\* Thread t's call enters predict in this step.
Enters(t) == pc[t] = "idle" /\ pc'[t] # "idle"

ValidBody(req) ==
    /\ ~FromStore(req)
    /\ req.body.kind = "dict"
    /\ Absent(req.body.f) = <<>>
    /\ ~HasText(req.body.f)

\* C6: while the scaler is not loaded, every call that ends has failed in
\* load_models: it ends with the model-unavailable error (500) and no
\* prediction; this holds for any sequence of calls until a load succeeds.
\* From then on the scaler stays loaded, a call that enters skips the load
\* and never gets the model-unavailable error, and a call served with
\* valid features succeeds.
C6_UnavailableUntilLoaded ==
    [][\A t \in Threads :
        /\ (Ends(t) /\ scaler' = None) =>
               /\ last'.resp.kind = "model_unavailable" /\ last'.resp.status = 500
               /\ last'.load = "fail"
               /\ NothingComputed(last')
        /\ (scaler # None) => scaler' # None
        /\ (Enters(t) /\ scaler # None) => (pc'[t] = "serve" /\ path'[t] = "skip")
        /\ (Ends(t) /\ path[t] = "skip") => last'.resp.kind # "model_unavailable"
        /\ (Ends(t) /\ pc[t] = "serve" /\ ValidBody(last'.req)) => Ok(last')
      ]_vars

\* The call that ended last failed for want of the model files; a load has
\* succeeded since, and a call that entered after it has skipped the load.
C6_Witness ==
    /\ last.resp.kind = "model_unavailable" /\ last.load = "fail"
    /\ scaler # None
    /\ \E t \in Threads : pc[t] = "serve" /\ path[t] = "skip"

\* C10: under any interleaving of calls that arrive while nothing is
\* loaded, no call is at the normalization and label steps with the scaler
\* or the label encoder unloaded, scaler loaded implies label encoder
\* loaded, a second load writes the values the first wrote, and a loaded
\* value is never changed.
C10_LoadTwiceIsSafe ==
    /\ [](scaler # None => label_encoder # None)
    /\ [](\A t \in Threads : pc[t] = "serve" => (scaler # None /\ label_encoder # None))
    /\ [][/\ (scaler # None => scaler' = scaler)
           /\ (label_encoder # None => label_encoder' = label_encoder)]_vars

\* One call has loaded both and is about to serve while a second call,
\* which saw the scaler unset, is in the middle of its own load.
C10_Witness ==
    \E t, u \in Threads :
        /\ t # u
        /\ pc[t] = "serve" /\ path[t] = "ok"
        /\ pc[u] = "load2"
        /\ scaler # None

====
